---- MODULE Spec2Model ----
(***************************************************************************)
(* Model of the two touch-gesture components of the repository:            *)
(*   src/TouchTracker.js   - per-identity touch histories and flags        *)
(*   src/TapRecognizer.js  - the shared tap / doubletap / press machine    *)
(* Each component is usable on its own, so each gets its own specification *)
(* (TrackerSpec, RecognizerSpec) over its own variables.                   *)
(***************************************************************************)
EXTENDS Integers, Sequences, FiniteSets, TLC

VARIABLES
    \* ---- TouchTracker ----
    selective,          \* this.selective
    touchHistory,       \* this.touchHistory: identifier -> array of Observations
    lastTrackEndData,   \* this.lastTrackEndData: << >> is the constructor's {}
    now,                \* the last value Date.now() returned
    trkOp,              \* the handler that ran last and the event it was given
    trkCount,           \* how many events the tracker was given
    trkLastEnd,         \* the Observation of the last 'trackend' an end or cancel emitted
    trkEmits,           \* what that handler emitted on eventOutput, in order
    \* ---- TapRecognizer ----
    emitEveryTap,       \* this.options.emitEveryTap
    pendingTap,         \* this.pendingTap
    lastTap,            \* this.lastTap
    lastTrackstart,     \* this.lastTrackstart
    lastTrackend,       \* this.lastTrackend
    tapState,           \* this.tapState
    lastTapState,       \* this.lastTapState
    recHistory,         \* TapRecognizer's this.touchHistory
    historyQueue,       \* this.historyQueue
    timers,             \* outstanding Timer.setTimeout callbacks
    clock,              \* time of the event source and of the Timer
    emitted,            \* every gesture event emitted so far, in order
    recOp,              \* the handler that ran last, and what it saw
    recCount,           \* how many events and timer callbacks were handled
    seqs,               \* the touch sequences delivered so far (bookkeeping)
    ends                \* the end and cancel events handled so far that carried
                        \* a changed touch, in order (bookkeeping)

trkVars == <<selective, touchHistory, lastTrackEndData, now, trkOp, trkCount,
             trkLastEnd, trkEmits>>
recVars == <<emitEveryTap, pendingTap, lastTap, lastTrackstart, lastTrackend,
             tapState, lastTapState, recHistory, historyQueue, timers, clock,
             emitted, recOp, recCount, seqs, ends>>
vars == <<trkVars, recVars>>

(***************************************************************************)
(* Bounds of the model                                                     *)
(***************************************************************************)
MaxTime == 1300         \* Date.now() stays within 0..MaxTime
MaxHist == 3            \* a tracked identity holds at most this many Observations
MaxEvents == 4          \* the tracker is given at most this many events

Ids == {1, 2}
\* the clock advances by one of these between two tracker events (ms)
TimeSteps == {100, 1000}
\* client coordinates: the origin, a point within the drag tolerance of it,
\* one beyond it in X only and one beyond it in Y only
Points == {<<0, 0>>, <<5, 5>>, <<6, 0>>, <<0, 6>>}
Origins == {"surface"}

(***************************************************************************)
(* TouchTracker.js                                                         *)
(***************************************************************************)
LONG_PRESS_THRESHHOLD == 1000
DOUBLE_TAP_THRESHHOLD == 200
LONG_PRESS_DRAG_THRESHHOLD == 5

Abs(x) == IF x < 0 THEN -x ELSE x

Touch(id, p) == [identifier |-> id, clientX |-> p[1], clientY |-> p[2]]

\* the map operations of a JS object used as a dictionary
Has(m, k) == k \in DOMAIN m
Put(m, k, v) == [x \in DOMAIN m \cup {k} |-> IF x = k THEN v ELSE m[x]]
Del(m, k) == [x \in DOMAIN m \ {k} |-> m[x]]
EmptyMap == << >>

\* |touch - history[0].touch| > LONG_PRESS_DRAG_THRESHHOLD in X or in Y
MovedTooFar(touch, history) ==
    \/ Abs(touch.clientX - history[1].touch.clientX) > LONG_PRESS_DRAG_THRESHHOLD
    \/ Abs(touch.clientY - history[1].touch.clientY) > LONG_PRESS_DRAG_THRESHHOLD

\* _determineTap measuring from the latest Observation, not the first
DetermineTapFromLatest(touch, history, isTrackEnd) ==
    IF ~isTrackEnd THEN "unknown"
    ELSE IF Len(history) > 0
         THEN IF MovedTooFar(touch, <<history[Len(history)]>>) THEN "false" ELSE "true"
         ELSE "unknown"

\* _determineTap(touch, history, isTrackEnd); history << >> is undefined
DetermineTap(touch, history, isTrackEnd) ==
    IF ~isTrackEnd THEN "unknown"
    ELSE IF Len(history) > 0
         THEN IF MovedTooFar(touch, history) THEN "false" ELSE "true"
         ELSE "unknown"

\* _determineDoubleTap with <= for the window
DetermineDoubleTapInclusive(touch, tap, t, isTrackEnd, last) ==
    IF ~isTrackEnd THEN "unknown"
    ELSE IF tap # "true" THEN "false"
    ELSE IF Len(last) = 0 THEN "false"
    ELSE IF last[1].tap # "true" THEN "false"
    ELSE IF t - last[1].timestamp <= DOUBLE_TAP_THRESHHOLD THEN "true"
    ELSE "false"

\* _determineDoubleTap(touch, tap, now, isTrackEnd, lastTrackEndData);
\* lastTrackEndData is always an object (never falsy): << >> is {} whose .tap
\* is undefined
DetermineDoubleTap(touch, tap, t, isTrackEnd, last) ==
    IF ~isTrackEnd THEN "unknown"
    ELSE IF tap # "true" THEN "false"
    ELSE IF Len(last) = 0 THEN "false"
    ELSE IF last[1].tap # "true" THEN "false"
    ELSE IF t - last[1].timestamp < DOUBLE_TAP_THRESHHOLD THEN "true"
    ELSE "false"

\* _determineLongPress without the branch that retains a resolved value
DetermineLongPressRecomputed(touch, history, t, isTrackEnd) ==
    LET lp == IF Len(history) > 0
              THEN IF t - history[1].timestamp < LONG_PRESS_THRESHHOLD
                   THEN IF MovedTooFar(touch, history)
                        THEN "false" ELSE "unknown"
                   ELSE IF MovedTooFar(touch, history)
                        THEN "false" ELSE "true"
              ELSE "unknown"
    IN IF isTrackEnd /\ lp = "unknown" THEN "false" ELSE lp

\* _determineLongPress with <= for the duration threshold
DetermineLongPressExclusive(touch, history, t, isTrackEnd) ==
    LET lp == IF Len(history) > 0
              THEN IF history[Len(history)].longPress = "unknown"
                   THEN IF t - history[1].timestamp <= LONG_PRESS_THRESHHOLD
                        THEN IF MovedTooFar(touch, history)
                             THEN "false" ELSE "unknown"
                        ELSE IF MovedTooFar(touch, history)
                             THEN "false" ELSE "true"
                   ELSE history[Len(history)].longPress
              ELSE "unknown"
    IN IF isTrackEnd /\ lp = "unknown" THEN "false" ELSE lp

\* _determineLongPress(touch, history, now, isTrackEnd)
DetermineLongPress(touch, history, t, isTrackEnd) ==
    LET lp == IF Len(history) > 0
              THEN IF history[Len(history)].longPress = "unknown"
                   THEN IF t - history[1].timestamp < LONG_PRESS_THRESHHOLD
                        THEN IF MovedTooFar(touch, history)
                             THEN "false" ELSE "unknown"
                        ELSE IF MovedTooFar(touch, history)
                             THEN "false" ELSE "true"
                   ELSE history[Len(history)].longPress
              ELSE "unknown"
    IN IF isTrackEnd /\ lp = "unknown" THEN "false" ELSE lp

\* _timestampTouch: the Observation without its history field; the history
\* field is a reference to the identity's array (hasHistory says it is set),
\* whose content at emission time is recorded beside the Observation.
TimestampTouch(touch, origin, history, count, isTrackEnd, last, t) ==
    LET tap == DetermineTap(touch, history, isTrackEnd)
    IN [touch |-> touch,
        origin |-> origin,
        timestamp |-> t,
        count |-> count,
        hasHistory |-> Len(history) > 0,
        longPress |-> DetermineLongPress(touch, history, t, isTrackEnd),
        tap |-> tap,
        doubleTap |-> DetermineDoubleTap(touch, tap, t, isTrackEnd, last)]

Emit(type, data, history) == [type |-> type, data |-> data, history |-> history]

\* TouchTracker.prototype.track
Track(th, data) == Put(th, data.touch.identifier, <<data>>)

\* one round of _handleStart's loop. st = [th, last, em]; calls is the set of
\* loop indices at which the 'trackstart' listener calls track(data) itself
\* (what a client of a selective tracker does).
StartOne(st, touch, origin, count, t, listenerTracks) ==
    LET data == TimestampTouch(touch, origin, << >>, count, FALSE, st.last, t)
        th1 == IF listenerTracks THEN Track(st.th, data) ELSE st.th
        th2 == IF ~selective /\ ~Has(th1, touch.identifier)
               THEN Track(th1, data) ELSE th1
    IN [th |-> th2, last |-> st.last,
        em |-> Append(st.em, Emit("trackstart", data, << >>))]

\* one round of _handleMove's loop: the Observation is pushed onto the array
\* its own history field refers to, and emitted after that
MoveOne(st, touch, origin, count, t) ==
    IF Has(st.th, touch.identifier)
    THEN LET history == st.th[touch.identifier]
             data == TimestampTouch(touch, origin, history, count, FALSE, st.last, t)
             pushed == Append(history, data)
         IN [th |-> Put(st.th, touch.identifier, pushed), last |-> st.last,
             em |-> Append(st.em, Emit("trackmove", data, pushed))]
    ELSE st

\* EndOne without `delete this.touchHistory[touch.identifier]`
EndOneKeepsHistory(st, touch, origin, count, t) ==
    IF Has(st.th, touch.identifier)
    THEN LET history == st.th[touch.identifier]
             data == TimestampTouch(touch, origin, history, count, TRUE, st.last, t)
         IN [th |-> st.th, last |-> <<data>>,
             em |-> Append(st.em, Emit("trackend", data, history))]
    ELSE st

\* EndOne without `if (!history) continue`
EndOneUntracked(st, touch, origin, count, t) ==
    LET history == IF Has(st.th, touch.identifier) THEN st.th[touch.identifier]
                   ELSE << >>
        data == TimestampTouch(touch, origin, history, count, TRUE, st.last, t)
    IN [th |-> Del(st.th, touch.identifier), last |-> <<data>>,
        em |-> Append(st.em, Emit("trackend", data, history))]

\* one round of _handleEnd's loop
EndOne(st, touch, origin, count, t) ==
    IF Has(st.th, touch.identifier)
    THEN LET history == st.th[touch.identifier]
             data == TimestampTouch(touch, origin, history, count, TRUE, st.last, t)
         IN [th |-> Del(st.th, touch.identifier), last |-> <<data>>,
             em |-> Append(st.em, Emit("trackend", data, history))]
    ELSE st

RECURSIVE StartLoop(_, _, _, _, _, _, _)
StartLoop(st, touches, i, origin, count, t, calls) ==
    IF i > Len(touches) THEN st
    ELSE StartLoop(StartOne(st, touches[i], origin, count, t, i \in calls),
                   touches, i + 1, origin, count, t, calls)

RECURSIVE MoveLoop(_, _, _, _, _, _)
MoveLoop(st, touches, i, origin, count, t) ==
    IF i > Len(touches) THEN st
    ELSE MoveLoop(MoveOne(st, touches[i], origin, count, t),
                  touches, i + 1, origin, count, t)

RECURSIVE EndLoop(_, _, _, _, _, _)
EndLoop(st, touches, i, origin, count, t) ==
    IF i > Len(touches) THEN st
    ELSE EndLoop(EndOne(st, touches[i], origin, count, t),
                 touches, i + 1, origin, count, t)

\* the synthetic 'trackend' carrying the last Observation's flags and count
UnpipeEventCopiesLast(history, t) ==
    Emit("trackend",
         [history[Len(history)] EXCEPT !.origin = "undefined", !.timestamp = t,
                                       !.hasHistory = TRUE],
         history)

\* the synthetic 'trackend' of _handleUnpipe for identity i
UnpipeEvent(history, t) ==
    Emit("trackend",
         [touch |-> history[Len(history)].touch,
          origin |-> "undefined",
          timestamp |-> t,
          count |-> 0,
          hasHistory |-> TRUE,
          longPress |-> "false",
          tap |-> "false",
          doubleTap |-> "false"],
         history)

\* _handleUnpipe's for-in loop; integer keys are visited in ascending order
RECURSIVE UnpipeLoop(_, _)
UnpipeLoop(st, t) ==
    IF DOMAIN st.th = {} THEN st
    ELSE LET i == CHOOSE k \in DOMAIN st.th : \A j \in DOMAIN st.th : k <= j
         IN UnpipeLoop([th |-> Del(st.th, i), last |-> st.last,
                        em |-> Append(st.em, UnpipeEvent(st.th[i], t))], t)

\* the changed touches of the raw events delivered to the tracker: one touch
\* (identifier 1 anywhere, identifier 2 at the origin or beyond the tolerance),
\* or both identifiers at once
ChangedTouches ==
    { <<Touch(1, p)>> : p \in Points }
    \cup { <<Touch(2, p)>> : p \in {<<0, 0>>, <<6, 0>>} }
    \cup { <<Touch(1, <<0, 0>>), Touch(2, <<0, 0>>)>> }

\* event.touches.length: the touches still down. Only the changed touches are
\* down for a start or a move; none are after an end or a cancel.
TouchesLength(kind, touches) ==
    IF kind \in {"touchstart", "touchmove"} THEN Len(touches) ELSE 0

TrkState == [th |-> touchHistory, last |-> lastTrackEndData, em |-> << >>]

TrkCommit(st, kind, touches, t) ==
    /\ touchHistory' = st.th
    /\ lastTrackEndData' = st.last
    /\ trkEmits' = st.em
    /\ now' = t
    /\ trkOp' = [kind |-> kind, touches |-> touches]
    /\ trkCount < MaxEvents
    /\ trkCount' = trkCount + 1
    /\ trkLastEnd' = IF kind = "touchend" /\ st.em # << >>
                     THEN <<st.em[Len(st.em)].data>> ELSE trkLastEnd
    /\ UNCHANGED <<selective, recVars>>

TrkHistFits(st) == \A id \in DOMAIN st.th : Len(st.th[id]) <= MaxHist

\* 'touchstart'
TrkHandleStart ==
    \E touches \in ChangedTouches, d \in TimeSteps, o \in Origins,
       calls \in SUBSET (1..2) :
        /\ now + d <= MaxTime
        /\ calls \subseteq 1..Len(touches)
        /\ selective \/ calls = {}
        /\ TrkCommit(StartLoop(TrkState, touches, 1, o,
                               TouchesLength("touchstart", touches), now + d, calls),
                     "touchstart", touches, now + d)

\* 'touchmove'
TrkHandleMove ==
    \E touches \in ChangedTouches, d \in TimeSteps, o \in Origins :
        /\ now + d <= MaxTime
        /\ LET st == MoveLoop(TrkState, touches, 1, o,
                              TouchesLength("touchmove", touches), now + d)
           IN /\ TrkHistFits(st)
              /\ TrkCommit(st, "touchmove", touches, now + d)

\* 'touchend' and 'touchcancel': both are bound to the same _handleEnd
TrkHandleEnd ==
    \E touches \in ChangedTouches, d \in TimeSteps, o \in Origins :
        /\ now + d <= MaxTime
        /\ TrkCommit(EndLoop(TrkState, touches, 1, o,
                             TouchesLength("touchend", touches), now + d),
                     "touchend", touches, now + d)

\* 'unpipe'
TrkHandleUnpipe ==
    \E d \in TimeSteps :
        /\ now + d <= MaxTime
        /\ TrkCommit(UnpipeLoop(TrkState, now + d), "unpipe", << >>, now + d)

\* new TouchTracker(selective)
TrkInit(selectives) ==
    /\ selective \in selectives
    /\ touchHistory = EmptyMap
    /\ lastTrackEndData = << >>
    /\ now = 0
    /\ trkOp = [kind |-> "new", touches |-> << >>]
    /\ trkCount = 0
    /\ trkLastEnd = << >>
    /\ trkEmits = << >>

TrackerNext ==
    \/ TrkHandleStart
    \/ TrkHandleMove
    \/ TrkHandleEnd
    \/ TrkHandleUnpipe

(***************************************************************************)
(* TapRecognizer.js                                                        *)
(***************************************************************************)
MaxRecEvents == 5       \* the recognizer handles at most this many events
MaxEmitEvents == 6      \* ... and this many in the runs of EmitSpec
MaxCacheEnds == 6       \* ... and this many end events in the runs of CacheSpec
MaxSuppressEvents == 6  \* ... and this many in the runs of SuppressSpec

\* time between two events delivered to the recognizer (ms)
RecSteps == {50, 250, 500}

TAP_THRESHOLD == 100
DOUBLE_TAP_THRESHOLD == 300
PRESS_THRESHOLD == 500

INVALID_TAP == 0
STARTED == 1
TAP == 2
DOUBLE_TAP == 3
PRESS == 4

\* a JS value that may be undefined is a sequence: << >> is undefined, <<v>> is v
Undefined == << >>
Truthy(s) == s # 0

\* the values options.emitEveryTap is given: the string 'true' (the default),
\* and the booleans the documentation names
StrTrue == "'true'"
BoolTrue == "true"
BoolFalse == "false"

\* TapRecognizer.prototype.setOptions
SetOptions(current, given) == IF given # Undefined THEN given[1] ELSE current

\* the constructor's default options, then setOptions(options) when options
\* were given (setOptions(this.options) otherwise)
ConstructOptions(options) ==
    LET default == StrTrue
    IN IF options # Undefined THEN SetOptions(default, options[1])
       ELSE SetOptions(default, <<default>>)

\* var emitEveryTap = (this.options.emitEveryTap === "true")
EmitMode(option) == option = StrTrue

\* _buildPayload(event)
BuildPayload(event) ==
    IF Len(event.changedTouches) = 0
    THEN [timeStamp |-> event.timeStamp, coords |-> Undefined]
    ELSE LET data == event.changedTouches[1]
         IN [timeStamp |-> event.timeStamp,
             coords |-> <<[clientX |-> data.clientX, clientY |-> data.clientY,
                          touch |-> data.identifier]>>]

\* the recognizer's fields a handler works on, with what it emitted (em), the
\* timers it armed (arm) and the states it assigned to tapState (trace)
RecState ==
    [tapState |-> tapState, lastTapState |-> lastTapState,
     pendingTap |-> pendingTap, lastTap |-> lastTap,
     em |-> << >>, arm |-> << >>, trace |-> << >>]

Gesture(type, payload, by, at) ==
    [type |-> type, payload |-> payload, by |-> by, at |-> at]

\* _broadcast, called by handler `by` at time `at`
Broadcast(r, by, at) ==
    LET em1 == IF r.tapState = STARTED \/ r.tapState = TAP
               THEN Append(r.em, Gesture("tap", r.pendingTap, by, at))
               ELSE IF r.tapState = DOUBLE_TAP
               THEN Append(r.em, Gesture("doubletap", r.pendingTap, by, at))
               ELSE IF r.tapState = PRESS
               THEN Append(r.em, Gesture("press", r.pendingTap, by, at))
               ELSE r.em
        final == r.tapState # STARTED
    IN [r EXCEPT !.em = em1,
                 !.lastTapState = IF final THEN r.tapState ELSE @,
                 !.tapState = IF final THEN INVALID_TAP ELSE @,
                 !.lastTap = r.pendingTap,
                 !.pendingTap = Undefined]

Classify(r, state, data) ==
    [r EXCEPT !.tapState = state, !.pendingTap = <<BuildPayload(data)>>,
              !.trace = Append(@, state)]

\* the double-tap window with <= for the threshold
EndDoubleTapInclusive(r, data, lts, by) ==
    IF EmitMode(emitEveryTap)
    THEN IF /\ r.tapState = STARTED
            /\ Truthy(r.lastTapState)
            /\ r.lastTapState # DOUBLE_TAP
            /\ r.lastTap # Undefined
            /\ data.timeStamp - r.lastTap[1].timeStamp <= DOUBLE_TAP_THRESHOLD
         THEN Broadcast(Classify(r, DOUBLE_TAP, data), by, data.timeStamp)
         ELSE r
    ELSE IF /\ r.tapState = STARTED
            /\ r.pendingTap # Undefined
            /\ data.timeStamp - r.pendingTap[1].timeStamp <= DOUBLE_TAP_THRESHOLD
         THEN Classify(r, DOUBLE_TAP, data)
         ELSE r

\* the double-tap window broadcasting at once in both modes
EndDoubleTapBroadcasts(r, data, lts, by) ==
    IF EmitMode(emitEveryTap)
    THEN IF /\ r.tapState = STARTED
            /\ Truthy(r.lastTapState)
            /\ r.lastTapState # DOUBLE_TAP
            /\ r.lastTap # Undefined
            /\ data.timeStamp - r.lastTap[1].timeStamp < DOUBLE_TAP_THRESHOLD
         THEN Broadcast(Classify(r, DOUBLE_TAP, data), by, data.timeStamp)
         ELSE r
    ELSE IF /\ r.tapState = STARTED
            /\ r.pendingTap # Undefined
            /\ data.timeStamp - r.pendingTap[1].timeStamp < DOUBLE_TAP_THRESHOLD
         THEN Broadcast(Classify(r, DOUBLE_TAP, data), by, data.timeStamp)
         ELSE r

\* the double-tap window without `this.lastTapState !== TapRecognizer.DOUBLE_TAP`
EndDoubleTapRepeats(r, data, lts, by) ==
    IF EmitMode(emitEveryTap)
    THEN IF /\ r.tapState = STARTED
            /\ Truthy(r.lastTapState)
            /\ r.lastTap # Undefined
            /\ data.timeStamp - r.lastTap[1].timeStamp < DOUBLE_TAP_THRESHOLD
         THEN Broadcast(Classify(r, DOUBLE_TAP, data), by, data.timeStamp)
         ELSE r
    ELSE IF /\ r.tapState = STARTED
            /\ r.pendingTap # Undefined
            /\ data.timeStamp - r.pendingTap[1].timeStamp < DOUBLE_TAP_THRESHOLD
         THEN Classify(r, DOUBLE_TAP, data)
         ELSE r

\* _handleEnd, lines 107-121: the double-tap window
EndDoubleTap(r, data, lts, by) ==
    IF EmitMode(emitEveryTap)
    THEN IF /\ r.tapState = STARTED
            /\ Truthy(r.lastTapState)
            /\ r.lastTapState # DOUBLE_TAP
            /\ r.lastTap # Undefined
            /\ data.timeStamp - r.lastTap[1].timeStamp < DOUBLE_TAP_THRESHOLD
         THEN Broadcast(Classify(r, DOUBLE_TAP, data), by, data.timeStamp)
         ELSE r
    ELSE IF /\ r.tapState = STARTED
            /\ r.pendingTap # Undefined
            /\ data.timeStamp - r.pendingTap[1].timeStamp < DOUBLE_TAP_THRESHOLD
         THEN Classify(r, DOUBLE_TAP, data)
         ELSE r

\* the tap test without `this.tapState === TapRecognizer.STARTED`
EndTapUnguarded(r, data, lts, by) ==
    IF /\ lts # Undefined
       /\ data.timeStamp - lts[1].timeStamp < TAP_THRESHOLD
    THEN IF EmitMode(emitEveryTap)
         THEN Broadcast(Classify(r, TAP, data), by, data.timeStamp)
         ELSE [Classify(r, TAP, data) EXCEPT
                 !.arm = Append(@, [due |-> data.timeStamp + DOUBLE_TAP_THRESHOLD,
                                    armedFor |-> BuildPayload(data)])]
    ELSE r

\* _handleEnd, lines 123-132: the tap
EndTap(r, data, lts, by) ==
    IF /\ r.tapState = STARTED
       /\ lts # Undefined
       /\ data.timeStamp - lts[1].timeStamp < TAP_THRESHOLD
    THEN IF EmitMode(emitEveryTap)
         THEN Broadcast(Classify(r, TAP, data), by, data.timeStamp)
         ELSE [Classify(r, TAP, data) EXCEPT
                 !.arm = Append(@, [due |-> data.timeStamp + DOUBLE_TAP_THRESHOLD,
                                    armedFor |-> BuildPayload(data)])]
    ELSE r

\* _handleEnd, lines 134-139: the press
EndPress(r, data, lts, by) ==
    IF /\ r.tapState = STARTED
       /\ lts # Undefined
       /\ data.timeStamp - lts[1].timeStamp > PRESS_THRESHOLD
    THEN Broadcast(Classify(r, PRESS, data), by, data.timeStamp)
    ELSE r

\* _handleEnd after _updateHistory
EndClassify(r, data, lts, by) ==
    EndPress(EndTap(EndDoubleTap(r, data, lts, by), data, lts, by), data, lts, by)

\* _handleMove without `this.tapState === TapRecognizer.STARTED`
MoveClassifyUnguarded(r, data, lts, by) ==
    IF /\ lts # Undefined
       /\ data.timeStamp - lts[1].timeStamp > PRESS_THRESHOLD
    THEN Broadcast(Classify(r, PRESS, data), by, data.timeStamp)
    ELSE r

\* _handleMove
MoveClassify(r, data, lts, by) ==
    IF /\ r.tapState = STARTED
       /\ lts # Undefined
       /\ data.timeStamp - lts[1].timeStamp > PRESS_THRESHOLD
    THEN Broadcast(Classify(r, PRESS, data), by, data.timeStamp)
    ELSE r

\* the while loop of _updateHistory
RECURSIVE PadQueue(_)
PadQueue(q) == IF Len(q) < 5 THEN PadQueue(Append(q, 0)) ELSE q

\* _updateHistory without `delete this.touchHistory[this.historyQueue.shift()]`
UpdateHistoryNoEvict(th, q, data) ==
    IF Len(data.changedTouches) = 0 THEN [th |-> th, q |-> q]
    ELSE LET id == data.changedTouches[1].identifier
             q1 == Append(PadQueue(q), id)
         IN [th |-> Put(th, id, data), q |-> Tail(q1)]

\* _updateHistory(data): [th, q] after it
UpdateHistory(th, q, data) ==
    IF Len(data.changedTouches) = 0 THEN [th |-> th, q |-> q]
    ELSE LET id == data.changedTouches[1].identifier
             q1 == Append(PadQueue(q), id)
             th1 == Put(th, id, data)
         IN [th |-> IF Has(th1, Head(q1)) THEN Del(th1, Head(q1)) ELSE th1,
             q |-> Tail(q1)]

\* getTouchEventByIdentifier
GetTouchEventByIdentifier(id) ==
    IF Has(recHistory, id) THEN <<recHistory[id]>> ELSE Undefined

\* getOriginByTouchIdentifier; << >> is null here
GetOriginByTouchIdentifier(id) ==
    IF Has(recHistory, id) THEN <<recHistory[id].origin>> ELSE << >>

RTouch(id) == [identifier |-> id, clientX |-> 7, clientY |-> 9]

\* the events delivered to the recognizer at time t: one changed touch
RecEvents(t) ==
    { [timeStamp |-> t, changedTouches |-> <<RTouch(1)>>, origin |-> o] :
        o \in Origins }

\* an end or cancel event may also come without changed touches
RecEndEvents(t) ==
    RecEvents(t) \cup { [timeStamp |-> t, changedTouches |-> << >>, origin |-> o] :
                          o \in Origins }

RecCommit(r, kind, data, threw) ==
    /\ tapState' = r.tapState
    /\ lastTapState' = r.lastTapState
    /\ pendingTap' = r.pendingTap
    /\ lastTap' = r.lastTap
    /\ emitted' = emitted \o r.em
    /\ timers' = timers \o r.arm
    /\ recOp' = [kind |-> kind, at |-> data.timeStamp, before |-> Len(emitted),
                 trace |-> r.trace, threw |-> threw,
                 pre |-> tapState, prePending |-> pendingTap]
    /\ recCount' = recCount + 1
    /\ UNCHANGED <<emitEveryTap, trkVars>>

\* bookkeeping of the touch sequences delivered: a track-start opens one (at
\* time start, with `before` gestures emitted so far; quiet: nothing pending
\* and no timer outstanding), the first track-end after it closes it (at time
\* end; armed: that end classified the sequence doubletap without
\* broadcasting); cutOpen / cutClosed: an unpipe was handled before / after
\* that end
OpenSeq(t) ==
    Append(seqs, [start |-> t, end |-> -1, before |-> Len(emitted),
                  quiet |-> pendingTap = Undefined /\ timers = << >>,
                  armed |-> FALSE, cutOpen |-> FALSE, cutClosed |-> FALSE])

CloseSeq(t, arms) ==
    IF Len(seqs) > 0 /\ seqs[Len(seqs)].end = -1
    THEN [seqs EXCEPT ![Len(seqs)].end = t, ![Len(seqs)].armed = arms]
    ELSE seqs

CutSeq ==
    IF Len(seqs) = 0 THEN seqs
    ELSE IF seqs[Len(seqs)].end = -1
         THEN [seqs EXCEPT ![Len(seqs)].cutOpen = TRUE]
         ELSE [seqs EXCEPT ![Len(seqs)].cutClosed = TRUE]

\* _handleStart given one of the events of RecEvents, `steps` after the last
\* event, when fewer than `limit` events were handled
RecStart(steps, limit) ==
    \E d \in steps : \E data \in RecEvents(clock + d) :
        /\ recCount < limit
        /\ clock' = clock + d
        /\ lastTrackstart' = <<data>>
        /\ seqs' = OpenSeq(clock + d)
        /\ RecCommit([RecState EXCEPT !.tapState = STARTED], "touchstart", data, FALSE)
        /\ UNCHANGED <<lastTrackend, recHistory, historyQueue, ends>>

\* 'touchstart'
RecHandleStart == RecStart(RecSteps, MaxRecEvents)

\* _handleMove
RecMove(steps, limit) ==
    \E d \in steps : \E data \in RecEvents(clock + d) :
        /\ recCount < limit
        /\ clock' = clock + d
        /\ RecCommit(MoveClassify(RecState, data, lastTrackstart, "touchmove"),
                     "touchmove", data, FALSE)
        /\ UNCHANGED <<lastTrackstart, lastTrackend, recHistory, historyQueue, seqs,
                       ends>>

\* 'touchmove'
RecHandleMove == RecMove(RecSteps, MaxRecEvents)

RecEnd(kind, data) ==
    LET h == UpdateHistory(recHistory, historyQueue, data)
        r == EndClassify(RecState, data, lastTrackstart, kind)
    IN /\ recHistory' = h.th
       /\ historyQueue' = h.q
       /\ lastTrackend' = <<data>>
       /\ seqs' = CloseSeq(data.timeStamp, r.trace = <<DOUBLE_TAP>> /\ r.em = << >>)
       /\ ends' = IF Len(data.changedTouches) = 0 THEN ends ELSE Append(ends, data)
       /\ RecCommit(r, kind, data, FALSE)
       /\ UNCHANGED lastTrackstart

\* _handleEnd given one of `events`, stamped with the time it is delivered at
RecEndOf(steps, events, limit) ==
    \E d \in steps : \E e \in events :
        /\ recCount < limit
        /\ clock' = clock + d
        /\ RecEnd("touchend", [e EXCEPT !.timeStamp = clock + d])

\* 'touchend' and 'touchcancel': both are bound to the same _handleEnd
RecHandleEnd == RecEndOf(RecSteps, RecEndEvents(0), MaxRecEvents)

\* _handleUnpipe: pendingTap is cleared, then `this.tapState = INVALID_TAP` reads a
\* name that is bound nowhere (the constant is TapRecognizer.INVALID_TAP), so
\* the statement throws a ReferenceError and tapState is not assigned
RecUnpipe(limit) ==
    /\ recCount < limit
    /\ RecCommit([RecState EXCEPT !.pendingTap = Undefined], "unpipe",
                 [timeStamp |-> clock, changedTouches |-> << >>, origin |-> "undefined"],
                 TRUE)
    /\ seqs' = CutSeq
    /\ UNCHANGED <<clock, lastTrackstart, lastTrackend, recHistory, historyQueue,
                   ends>>

\* 'unpipe'
RecHandleUnpipe == RecUnpipe(MaxRecEvents)

\* a Timer.setTimeout(_broadcast, DOUBLE_TAP_THRESHOLD) callback runs: never
\* before it is due, possibly after later events; callbacks run in the order
\* they were armed
RecTimer(limit) ==
    /\ timers # << >>
    /\ clock' = IF clock < Head(timers).due THEN Head(timers).due ELSE clock
    /\ recCount < limit
    /\ recCount' = recCount + 1
    /\ emitted' = emitted \o Broadcast(RecState, "timer", clock').em
    /\ LET r == Broadcast(RecState, "timer", clock')
       IN /\ tapState' = r.tapState
          /\ lastTapState' = r.lastTapState
          /\ pendingTap' = r.pendingTap
          /\ lastTap' = r.lastTap
    /\ timers' = Tail(timers)
    /\ recOp' = [kind |-> "timer", at |-> clock', before |-> Len(emitted),
                 trace |-> << >>, threw |-> FALSE,
                 pre |-> tapState, prePending |-> pendingTap]
    /\ UNCHANGED <<emitEveryTap, lastTrackstart, lastTrackend, recHistory,
                   historyQueue, seqs, ends, trkVars>>

RecTimerFire == RecTimer(MaxRecEvents)

\* the options a recognizer is constructed with: none, or emitEveryTap given
RecOptions == {Undefined, <<Undefined>>, <<<<StrTrue>>>>, <<<<BoolTrue>>>>, <<<<BoolFalse>>>>}

\* new TapRecognizer(options)
RecInit(options) ==
    /\ emitEveryTap \in { ConstructOptions(o) : o \in options }
    /\ pendingTap = Undefined
    /\ lastTap = Undefined
    /\ lastTrackstart = Undefined
    /\ lastTrackend = Undefined
    /\ tapState = INVALID_TAP
    /\ lastTapState = INVALID_TAP
    /\ recHistory = EmptyMap
    /\ historyQueue = << >>
    /\ timers = << >>
    /\ clock = 0
    /\ emitted = << >>
    /\ recOp = [kind |-> "new", at |-> 0, before |-> 0, trace |-> << >>,
                threw |-> FALSE, pre |-> INVALID_TAP, prePending |-> Undefined]
    /\ recCount = 0
    /\ seqs = << >>
    /\ ends = << >>

RecognizerNext ==
    \/ RecHandleStart
    \/ RecHandleMove
    \/ RecHandleEnd
    \/ RecHandleUnpipe
    \/ RecTimerFire

\* the same handlers in longer runs of a recognizer in emit-every-tap mode:
\* every event carries a changed touch and comes 50 ms (within the tap and
\* double-tap thresholds) or 550 ms (beyond all thresholds) after the last
EmitSteps == {50, 550}
EmitHandleStart == RecStart(EmitSteps, MaxEmitEvents)
EmitHandleMove == RecMove(EmitSteps, MaxEmitEvents)
EmitHandleEnd == RecEndOf(EmitSteps, RecEvents(0), MaxEmitEvents)
EmitHandleUnpipe == RecUnpipe(MaxEmitEvents)

EmitNext ==
    \/ EmitHandleStart
    \/ EmitHandleMove
    \/ EmitHandleEnd
    \/ EmitHandleUnpipe

\* the same in longer runs of a recognizer in suppress mode, with the timer
SuppressSteps == {50, 550}
SuppressHandleStart == RecStart(SuppressSteps, MaxSuppressEvents)
SuppressHandleMove == RecMove(SuppressSteps, MaxSuppressEvents)
SuppressHandleEnd == RecEndOf(SuppressSteps, RecEvents(0), MaxSuppressEvents)
SuppressHandleUnpipe == RecUnpipe(MaxSuppressEvents)
SuppressTimerFire == RecTimer(MaxSuppressEvents)

SuppressNext ==
    \/ SuppressHandleStart
    \/ SuppressHandleMove
    \/ SuppressHandleEnd
    \/ SuppressHandleUnpipe
    \/ SuppressTimerFire

\* the identity cache: end events whose first changed touch has any of these
\* identifiers, 50 ms apart
CacheIds == {0, 1, 2, 3, 4, 5}
CacheSteps == {50}
CacheEvents(t) ==
    { [timeStamp |-> t, changedTouches |-> <<RTouch(id)>>, origin |-> o] :
        id \in CacheIds, o \in Origins }
CacheHandleEnd == RecEndOf(CacheSteps, CacheEvents(0), MaxCacheEnds)

CacheNext ==
    \/ CacheHandleEnd

(***************************************************************************)
(* Properties of the Touch Tracker (checked under TrackerSpec)             *)
(***************************************************************************)
\* the identifiers in the changed set of the event handled last
ChangedIds == { trkOp.touches[i].identifier : i \in 1..Len(trkOp.touches) }

\* C1: right after an end or cancel event was processed, the history map has
\* no entry for any identifier of the event's changed set, selective or not.
C1_EndRemovesHistory ==
    trkOp.kind = "touchend" => \A id \in ChangedIds : ~Has(touchHistory, id)

\* C1 witness: a selective tracker has just ended a tracked identity while
\* the other identity is still tracked.
C1_Witness ==
    /\ selective
    /\ trkOp.kind = "touchend"
    /\ Len(trkEmits) = 1
    /\ DOMAIN touchHistory # {}

\* the longPress of Observation e agrees with every resolved Observation of
\* the history it carries
KeepsLongPress(e) ==
    \A j \in 1..Len(e.history) :
        e.history[j].longPress # "unknown" => e.data.longPress = e.history[j].longPress

\* C2 as stated: once an Observation of an identity has longPress 'true' or
\* 'false', every later Observation of the sequence carries the same value,
\* the terminal track-end included, whether an end, a cancel or a disconnect
\* produced it.
C2_LongPressFrozenAlways ==
    \A i \in 1..Len(trkEmits) :
        trkEmits[i].type \in {"trackmove", "trackend"} => KeepsLongPress(trkEmits[i])

\* C2 amended: the same for the Observations a move, an end or a cancel emits;
\* the synthetic track-end of a disconnect carries 'false' whatever was
\* resolved before.
C2_LongPressFrozen ==
    \A i \in 1..Len(trkEmits) :
        /\ (trkOp.kind \in {"touchmove", "touchend"}) => KeepsLongPress(trkEmits[i])
        /\ (trkOp.kind = "unpipe") => trkEmits[i].data.longPress = "false"

\* C2 witness: an end emitted a terminal Observation after the long press had
\* resolved to 'true' and the touch then moved beyond the drag tolerance.
C2_Witness ==
    /\ trkOp.kind = "touchend"
    /\ \E i \in 1..Len(trkEmits) :
        LET e == trkEmits[i]
        IN /\ e.data.longPress = "true"
           /\ e.history[Len(e.history)].longPress = "true"
           /\ MovedTooFar(e.data.touch, e.history)

\* C3: a disconnect emits exactly one track-end per tracked identity, each
\* with longPress, tap and doubleTap 'false', count 0 and that identity's
\* history, and leaves the history map empty.
C3_DisconnectEndsAll ==
    [][trkOp'.kind = "unpipe" =>
        /\ touchHistory' = EmptyMap
        /\ Len(trkEmits') = Cardinality(DOMAIN touchHistory)
        /\ \A id \in DOMAIN touchHistory :
             \E i \in 1..Len(trkEmits') :
                /\ trkEmits'[i].history = touchHistory[id]
                /\ trkEmits'[i].data.touch.identifier = id
        /\ \A i \in 1..Len(trkEmits') :
             /\ trkEmits'[i].type = "trackend"
             /\ trkEmits'[i].data.longPress = "false"
             /\ trkEmits'[i].data.tap = "false"
             /\ trkEmits'[i].data.doubleTap = "false"
             /\ trkEmits'[i].data.count = 0]_vars

\* C3 witness: a disconnect found two tracked identities, one of them with a
\* long press resolved to 'true'.
C3_Witness ==
    /\ trkOp.kind = "unpipe"
    /\ Len(trkEmits) = 2
    /\ \E i \in 1..2 : trkEmits[i].history[Len(trkEmits[i].history)].longPress = "true"

\* C4: a terminal Observation of an end or cancel has doubleTap 'true' iff its
\* tap is 'true', a previous end/cancel Observation exists (of any identity,
\* the same event's earlier touches included) with tap 'true', and less than
\* 200 ms lie between the two timestamps; 'false' otherwise. An Observation
\* of a start or a move has doubleTap 'unknown'.
C4_DoubleTapFlag ==
    [][/\ trkOp'.kind \in {"touchstart", "touchmove"} =>
            \A i \in 1..Len(trkEmits') : trkEmits'[i].data.doubleTap = "unknown"
       /\ trkOp'.kind = "touchend" =>
            \A i \in 1..Len(trkEmits') :
                LET o == trkEmits'[i].data
                    prev == IF i = 1 THEN trkLastEnd ELSE <<trkEmits'[i - 1].data>>
                    isDouble == /\ o.tap = "true"
                                /\ prev # << >>
                                /\ prev[1].tap = "true"
                                /\ o.timestamp - prev[1].timestamp < 200
                IN o.doubleTap = IF isDouble THEN "true" ELSE "false"]_vars

\* C4 witness: an end of one touch emitted a terminal Observation with doubleTap
\* 'true' (the previous terminal Observation came from an earlier event).
C4_Witness ==
    /\ trkOp.kind = "touchend"
    /\ Len(trkEmits) = 1
    /\ trkEmits[1].data.doubleTap = "true"
    /\ trkEmits[1].data.timestamp > 100

\* C5: an Observation of a start or a move has tap 'unknown'; a terminal
\* Observation of an end or cancel has tap 'true' iff |dx| <= 5 and |dy| <= 5
\* from the first Observation of its history, 'false' otherwise, whatever the
\* elapsed time and the positions in between.
C5_TapFlag ==
    \A i \in 1..Len(trkEmits) :
        LET e == trkEmits[i]
        IN /\ e.type \in {"trackstart", "trackmove"} => e.data.tap = "unknown"
           /\ (e.type = "trackend" /\ trkOp.kind = "touchend") =>
                e.data.tap =
                    IF /\ Abs(e.data.touch.clientX - e.history[1].touch.clientX) <= 5
                       /\ Abs(e.data.touch.clientY - e.history[1].touch.clientY) <= 5
                    THEN "true" ELSE "false"

\* C5 witness: a touch ends with tap 'true' at least 1000 ms after its start,
\* having been beyond the drag tolerance in between.
C5_Witness ==
    /\ trkOp.kind = "touchend"
    /\ \E i \in 1..Len(trkEmits) :
        LET e == trkEmits[i]
        IN /\ e.data.tap = "true"
           /\ e.data.timestamp - e.history[1].timestamp >= 1000
           /\ \E j \in 1..Len(e.history) : MovedTooFar(e.history[j].touch, e.history)

\* C17: a move, end or cancel emits a track event only for changed touches
\* that have a history entry; when none of its changed touches has one it
\* emits nothing and leaves the history map and the last-end cache unchanged;
\* and a start, move, end or cancel leaves the history entry of every
\* identifier outside its changed set unchanged.
C17_UntrackedIgnored ==
    [][LET ids == { trkOp'.touches[i].identifier : i \in 1..Len(trkOp'.touches) }
       IN /\ trkOp'.kind \in {"touchmove", "touchend"} =>
               /\ \A i \in 1..Len(trkEmits') :
                     Has(touchHistory, trkEmits'[i].data.touch.identifier)
               /\ (\A id \in ids : ~Has(touchHistory, id)) =>
                     /\ trkEmits' = << >>
                     /\ touchHistory' = touchHistory
                     /\ lastTrackEndData' = lastTrackEndData
          /\ trkOp'.kind \in {"touchstart", "touchmove", "touchend"} =>
               \A id \in Ids \ ids :
                  /\ Has(touchHistory', id) <=> Has(touchHistory, id)
                  /\ Has(touchHistory, id) => touchHistory'[id] = touchHistory[id]]_vars

\* C17 witness: a selective tracker that tracks identity 2, and has ended
\* nothing yet, was given an end of identity 1, which it does not track.
C17_Witness ==
    /\ selective
    /\ trkOp.kind = "touchend"
    /\ ChangedIds = {1}
    /\ trkEmits = << >>
    /\ lastTrackEndData = << >>
    /\ DOMAIN touchHistory = {2}
    /\ Len(touchHistory[2]) > 1

\* C18: at the moment a move, end or cancel emits a track-move or track-end,
\* the history its Observation carries is exactly the sequence of Observations
\* created before it for that identifier (the entry the history map held when
\* the event arrived), without the emitted Observation itself.
C18_HistoryIsPrior ==
    [][trkOp'.kind \in {"touchmove", "touchend"} =>
          \A i \in 1..Len(trkEmits') :
              LET e == trkEmits'[i]
              IN /\ e.history = touchHistory[e.data.touch.identifier]
                 /\ \A j \in 1..Len(e.history) : e.history[j] # e.data]_vars

\* the Observations created for the identity of emitted event e before e
\* itself (a track-move's array already holds its own Observation)
Prior(e) ==
    IF e.type = "trackmove" THEN SubSeq(e.history, 1, Len(e.history) - 1)
    ELSE e.history

\* C19: a start Observation has longPress 'unknown'; no terminal Observation
\* has; and an Observation a move, end or cancel builds when the previous
\* Observation of the identity has longPress 'unknown' gets: 'false' if the
\* touch is more than 5 away from the first Observation in X or in Y;
\* otherwise 'true' if 1000 ms or more have passed since the first
\* Observation; otherwise 'unknown' (move) or 'false' (end, cancel).
C19_LongPressFlag ==
    \A i \in 1..Len(trkEmits) :
        LET e == trkEmits[i]
            first == Prior(e)[1]
            dt == e.data.timestamp - first.timestamp
            moved == \/ Abs(e.data.touch.clientX - first.touch.clientX) > 5
                     \/ Abs(e.data.touch.clientY - first.touch.clientY) > 5
        IN /\ e.type = "trackstart" => e.data.longPress = "unknown"
           /\ e.type = "trackend" => e.data.longPress # "unknown"
           /\ (/\ trkOp.kind \in {"touchmove", "touchend"}
               /\ Prior(e)[Len(Prior(e))].longPress = "unknown") =>
                 e.data.longPress =
                    IF moved THEN "false"
                    ELSE IF dt >= 1000 THEN "true"
                    ELSE IF e.type = "trackend" THEN "false"
                    ELSE "unknown"

\* C19 witness: a move exactly 1000 ms after the start, within the drag
\* tolerance and with the flag still 'unknown' before it, resolved to 'true'.
C19_Witness ==
    /\ trkOp.kind = "touchmove"
    /\ \E i \in 1..Len(trkEmits) :
          LET e == trkEmits[i]
          IN /\ Prior(e)[Len(Prior(e))].longPress = "unknown"
             /\ e.data.timestamp - Prior(e)[1].timestamp = 1000
             /\ e.data.touch # Prior(e)[1].touch
             /\ e.data.longPress = "true"

(***************************************************************************)
(* Properties of the Tap Recognizer (checked under RecognizerSpec)         *)
(***************************************************************************)
\* the index in `emitted` of the last gesture emitted before sequence k + 1
\* was opened (all of them for the last sequence)
SeqLast(k) == IF k < Len(seqs) THEN seqs[k + 1].before ELSE Len(emitted)
\* the indices of the gestures emitted from the track-start of sequence k to
\* the next track-start
SeqRange(k) == (seqs[k].before + 1)..SeqLast(k)

IsTapped(s) == s.end # -1 /\ s.end - s.start < 100

\* C6: in emit-every-tap mode, a track-start at t0 and its track-end at t1
\* with t1 - t0 < 100, no gesture having been broadcast within the 300 ms
\* before t1, emit exactly one gesture up to the next track-start: a tap,
\* emitted by that track-end, with payload timestamp t1.
C6_ImmediateTap ==
    EmitMode(emitEveryTap) =>
        \A k \in 1..Len(seqs) :
            LET s == seqs[k]
            IN (/\ IsTapped(s)
                /\ \A i \in 1..Len(emitted) :
                      emitted[i].at < s.end => s.end - emitted[i].at >= 300)
               => /\ SeqLast(k) = s.before + 1
                  /\ emitted[s.before + 1].type = "tap"
                  /\ emitted[s.before + 1].by = "touchend"
                  /\ emitted[s.before + 1].at = s.end
                  /\ emitted[s.before + 1].payload # Undefined
                  /\ emitted[s.before + 1].payload[1].timeStamp = s.end

\* C6 witness: such a tap was emitted 300 ms or more after an earlier gesture.
C6_Witness ==
    /\ EmitMode(emitEveryTap)
    /\ \E k \in 1..Len(seqs) :
        /\ IsTapped(seqs[k])
        /\ seqs[k].before >= 1
        /\ seqs[k].end - emitted[seqs[k].before].at >= 300
        /\ SeqLast(k) = seqs[k].before + 1
        /\ emitted[seqs[k].before + 1].type = "tap"

\* two consecutive sequences: the first a quick touch (t1 - t0 < 100), the
\* second ended less than 300 ms after the first ended
QuickPair(k) ==
    /\ IsTapped(seqs[k])
    /\ seqs[k + 1].end # -1
    /\ seqs[k + 1].end - seqs[k].end < 300

IsTapOf(g, t) == g.type = "tap" /\ g.payload # Undefined /\ g.payload[1].timeStamp = t

C8_PressBeforeRelease ==
    /\ (/\ recOp.kind = "touchmove" /\ recOp.pre = STARTED /\ Len(seqs) > 0
        /\ recOp.at - seqs[Len(seqs)].start > 500) =>
          /\ Len(emitted) = recOp.before + 1
          /\ emitted[Len(emitted)].type = "press"
          /\ emitted[Len(emitted)].by = "touchmove"
          /\ emitted[Len(emitted)].at = recOp.at
          /\ emitted[Len(emitted)].payload # Undefined
          /\ emitted[Len(emitted)].payload[1].timeStamp = recOp.at
    /\ \A k \in 1..Len(seqs) : \A p \in SeqRange(k) :
          (emitted[p].type = "press" /\ emitted[p].by = "touchmove") =>
              \A j \in (p + 1)..SeqLast(k) :
                  ~(/\ emitted[j].by \in {"touchmove", "touchend"}
                    /\ emitted[j].type \in {"press", "tap"})

\* C8 witness: a track-move emitted a press, and the track-end of the same
\* sequence has been handled after it.
C8_Witness ==
    /\ Len(seqs) > 0
    /\ recOp.kind = "touchend"
    /\ seqs[Len(seqs)].end = recOp.at
    /\ \E p \in SeqRange(Len(seqs)) :
          emitted[p].type = "press" /\ emitted[p].by = "touchmove"

\* C9: after a disconnect is handled, the pending payload is cleared and
\* tapState is the invalid state.
C9_DisconnectResets ==
    recOp.kind = "unpipe" => (pendingTap = Undefined /\ tapState = INVALID_TAP)

\* C10: one track-end emits at most one gesture, and when its double-tap
\* window check succeeds the sequence is classified doubletap and nothing
\* else by that track-end: the doubletap is emitted (emit-every-tap mode) or
\* armed (suppress mode), and no tap or press is classified after it.
C10_TieBreak ==
    recOp.kind = "touchend" =>
        /\ Len(emitted) - recOp.before <= 1
        /\ (\E i \in 1..Len(recOp.trace) : recOp.trace[i] = DOUBLE_TAP) =>
              /\ recOp.trace = <<DOUBLE_TAP>>
              /\ EmitMode(emitEveryTap) =>
                    /\ Len(emitted) = recOp.before + 1
                    /\ emitted[Len(emitted)].type = "doubletap"
              /\ ~EmitMode(emitEveryTap) =>
                    /\ Len(emitted) = recOp.before
                    /\ tapState = DOUBLE_TAP

\* C10 witness: a track-end less than 100 ms after its track-start passed the
\* double-tap window check.
C10_Witness ==
    /\ recOp.kind = "touchend"
    /\ recOp.trace = <<DOUBLE_TAP>>
    /\ lastTrackstart # Undefined
    /\ recOp.at - lastTrackstart[1].timeStamp < 100

\* C11: a recognizer constructed without options or with emitEveryTap set to
\* boolean true broadcasts a qualifying tap synchronously during track-end
\* handling; one constructed with boolean false defers it by 300 ms.
C11_OptionModes ==
    (recOp.kind = "touchend" /\ recOp.trace = <<TAP>>) =>
        /\ emitEveryTap \in {ConstructOptions(Undefined), BoolTrue} =>
              /\ Len(emitted) = recOp.before + 1
              /\ emitted[Len(emitted)].type = "tap"
              /\ emitted[Len(emitted)].by = "touchend"
        /\ emitEveryTap = BoolFalse =>
              /\ Len(emitted) = recOp.before
              /\ timers # << >>
              /\ timers[Len(timers)].due = recOp.at + 300

\* C14: in emit-every-tap mode a track-end handled while lastTapState is
\* doubletap is never classified doubletap, and no two gestures emitted one
\* after the other are both doubletap.
C14_NoDoubleAfterDouble ==
    [][EmitMode(emitEveryTap) =>
        /\ (recOp'.kind = "touchend" /\ lastTapState = DOUBLE_TAP) =>
              \A i \in 1..Len(recOp'.trace) : recOp'.trace[i] # DOUBLE_TAP
        /\ \A i \in 1..(Len(emitted') - 1) :
              ~(emitted'[i].type = "doubletap" /\ emitted'[i + 1].type = "doubletap")]_vars

\* C14 witness: a third quick touch, ended less than 300 ms after a doubletap
\* was emitted, was emitted as a tap.
C14_Witness ==
    /\ EmitMode(emitEveryTap)
    /\ recOp.kind = "touchend"
    /\ Len(emitted) >= 2
    /\ emitted[Len(emitted)].type = "tap"
    /\ emitted[Len(emitted)].at = recOp.at
    /\ emitted[Len(emitted) - 1].type = "doubletap"
    /\ recOp.at - emitted[Len(emitted) - 1].at < 300

\* C15: in emit-every-tap mode a doubletap is emitted at a track-end only if
\* the gesture emitted last before it was a tap whose payload timestamp is
\* less than 300 ms before that track-end (never after a press).
C15_DoubleTapNeedsTap ==
    EmitMode(emitEveryTap) =>
        \A i \in 1..Len(emitted) :
            (emitted[i].type = "doubletap" /\ emitted[i].by = "touchend") =>
                /\ i > 1
                /\ emitted[i - 1].type = "tap"
                /\ emitted[i - 1].payload # Undefined
                /\ emitted[i].at - emitted[i - 1].payload[1].timeStamp < 300

\* C16: in suppress mode a deferred-tap timer that fires when the payload it
\* was armed for is no longer the pending payload emits nothing and leaves
\* tapState, lastTapState, lastTap and pendingTap unchanged.
C16_StaleTimerNoOp ==
    [][(/\ ~EmitMode(emitEveryTap)
        /\ recOp'.kind = "timer"
        /\ pendingTap # <<Head(timers).armedFor>>) =>
          /\ emitted' = emitted
          /\ tapState' = tapState
          /\ lastTapState' = lastTapState
          /\ lastTap' = lastTap
          /\ pendingTap' = pendingTap]_vars

\* no disconnect was handled since the track-end of sequence k
NoCutSince(k) ==
    /\ ~seqs[k].cutClosed
    /\ \A m \in (k + 1)..Len(seqs) : ~seqs[m].cutOpen /\ ~seqs[m].cutClosed

HasStamp(payload, t) == payload # Undefined /\ payload[1].timeStamp = t

\* C20: in suppress mode, once a track-end has armed the state as doubletap
\* and as long as no disconnect is handled, whatever events follow: the armed
\* payload is never emitted as a tap, and it is never dropped: it is still the
\* pending payload, waiting for the timer, or it was emitted as a doubletap
\* (which is what makes the doubletap follow once the timer fires).
C20_ArmedDoubleTapEmitted ==
    ~EmitMode(emitEveryTap) =>
        \A k \in 1..Len(seqs) :
            (seqs[k].armed /\ NoCutSince(k)) =>
                /\ \A i \in 1..Len(emitted) :
                      HasStamp(emitted[i].payload, seqs[k].end) =>
                          emitted[i].type = "doubletap"
                /\ \/ HasStamp(pendingTap, seqs[k].end)
                   \/ \E i \in 1..Len(emitted) :
                         /\ HasStamp(emitted[i].payload, seqs[k].end)
                         /\ emitted[i].type = "doubletap"

\* C21: in emit-every-tap mode, a track-start followed by its track-end
\* yields at most one gesture up to the next track-start, and no track-move or
\* track-end handled after that track-end and before the next track-start
\* emits a gesture, whatever time the sequence took.
C21_OneGesturePerSequence ==
    EmitMode(emitEveryTap) =>
        \A k \in 1..Len(seqs) :
            seqs[k].end # -1 =>
                /\ Cardinality(SeqRange(k)) <= 1
                /\ \A i \in SeqRange(k) :
                      emitted[i].by \in {"touchmove", "touchend"} =>
                          emitted[i].at <= seqs[k].end

(***************************************************************************)
(* Properties of the identity cache (checked under CacheSpec)              *)
(***************************************************************************)
\* the identifier of the first changed touch of an end event
EndId(e) == e.changedTouches[1].identifier
\* the places in `ends` of the last 5 track-end events
LastEnds == { i \in 1..Len(ends) : i > Len(ends) - 5 }
\* the most recent track-end event of identifier X
MostRecentEnd(X) ==
    ends[CHOOSE j \in 1..Len(ends) :
            /\ EndId(ends[j]) = X
            /\ \A k \in 1..Len(ends) : EndId(ends[k]) = X => k <= j]

\* C12: for every identifier X that is the first changed touch of one of the
\* last 5 track-end events, getTouchEventByIdentifier(X) returns the most
\* recent track-end event of X and getOriginByTouchIdentifier(X) its origin,
\* identifier 0 and identifiers that ended several times included.
C12_CacheRetention ==
    \A i \in LastEnds :
        LET X == EndId(ends[i])
        IN /\ GetTouchEventByIdentifier(X) = <<MostRecentEnd(X)>>
           /\ GetOriginByTouchIdentifier(X) = <<MostRecentEnd(X).origin>>

\* the identifier whose cached event is the oldest
OldestCached ==
    CHOOSE X \in DOMAIN recHistory :
        \A Y \in DOMAIN recHistory : recHistory[X].timeStamp <= recHistory[Y].timeStamp

\* C13: the cache never holds more than 5 entries, every cached identifier is
\* the identifier of one of the last 5 track-end events, and a track-end of an
\* identifier that is not cached, arriving when 5 are, evicts the identifier
\* cached longest ago and caches its own.
C13_CacheBound ==
    [][/\ Cardinality(DOMAIN recHistory') <= 5
       /\ \A X \in DOMAIN recHistory' :
             \E i \in 1..Len(ends') : i > Len(ends') - 5 /\ EndId(ends'[i]) = X
       /\ (/\ Cardinality(DOMAIN recHistory) = 5
           /\ Len(ends') = Len(ends) + 1
           /\ EndId(ends'[Len(ends')]) \notin DOMAIN recHistory) =>
             DOMAIN recHistory' =
                (DOMAIN recHistory \ {OldestCached}) \cup {EndId(ends'[Len(ends')])}]_vars

\* C13 witness: the sixth track-end, of a sixth identifier, has evicted the
\* identifier of the first one from a full cache.
C13_Witness ==
    /\ Len(ends) = 6
    /\ Cardinality(DOMAIN recHistory) = 5
    /\ EndId(ends[1]) \notin DOMAIN recHistory
    /\ \A i \in 2..6 : GetTouchEventByIdentifier(EndId(ends[i])) = <<ends[i]>>

(***************************************************************************)
(* Specifications                                                          *)
(***************************************************************************)
\* the tracker, selective or not, beside a recognizer that is given no event
TrackerInit == TrkInit(BOOLEAN) /\ RecInit({Undefined})
TrackerSpec == TrackerInit /\ [][TrackerNext]_vars

\* the recognizer, constructed with any of RecOptions, beside a tracker that
\* is given no event
RecognizerInit == TrkInit({FALSE}) /\ RecInit(RecOptions)
RecognizerSpec == RecognizerInit /\ [][RecognizerNext]_vars

\* a recognizer constructed without options (emit-every-tap mode)
EmitInit == TrkInit({FALSE}) /\ RecInit({Undefined})
EmitSpec == EmitInit /\ [][EmitNext]_vars

\* a recognizer constructed with emitEveryTap false (suppress mode)
SuppressInit == TrkInit({FALSE}) /\ RecInit({<<<<BoolFalse>>>>})
SuppressSpec == SuppressInit /\ [][SuppressNext]_vars

\* the identity cache of a recognizer that is given end events only
CacheSpec == EmitInit /\ [][CacheNext]_vars

====
